---- MODULE Spec2Model ----
(***************************************************************************)
(* Ayurvedic Pharmacy API (src/main.py, src/schemas.py): the request       *)
(* handlers, the schema validation that precedes them, the seeding routine *)
(* ensure_seed_data, and the document store they talk to.                  *)
(*                                                                         *)
(* Handlers run in a thread pool, so the unit of atomicity is one store    *)
(* operation: a handler that makes one is a single step, a caller of       *)
(* ensure_seed_data takes a step per count check and per insert, and any   *)
(* store operation may raise.                                              *)
(*                                                                         *)
(* The store outlives the process: a process starts on whatever an        *)
(* earlier one left in it.                                                 *)
(*                                                                         *)
(* Two specifications share the variables and the seeding steps:           *)
(*   Spec      startup, then every endpoint of the application: the        *)
(*             requests that call ensure_seed_data in flight together,     *)
(*             interleaved step by step with each other and with the       *)
(*             other requests, against a store whose operations raise as   *)
(*             the environment decides.                                    *)
(*   SpecRace  several ensure_seed_data invocations interleaved with each  *)
(*             other against a reachable store that starts empty.          *)
(*                                                                         *)
(* The module database.py (db, create_document, get_documents) is imported *)
(* by src/main.py but is not among the sources; its operations are         *)
(* modelled from section 4.2 of the specification.                         *)
(***************************************************************************)
EXTENDS Integers, Sequences, FiniteSets, TLC

VARIABLES
  db,        \* TRUE when the module-level store handle `db` is not None
  store,     \* collection name -> set of stored documents
  started,   \* TRUE once the startup hook has completed
  events,    \* what the environment has done to the process so far (bounded)
  resp,      \* the request that has just finished and its response
  issued,    \* what the successful POST requests of this process returned
  th,        \* request slot -> position of the caller of ensure_seed_data in it
  hist       \* what has happened to the collections (history, read by no handler)

vars == <<db, store, started, events, resp, issued, th, hist>>

(* ------------------------------ bounds -------------------------------- *)

\* requests calling ensure_seed_data that are in flight together
MaxSeeders == 2

\* What the environment does to one process, counted together: a request
\* that calls ensure_seed_data arrives, a POST request stores a document, a
\* store operation of a configured store raises.  Not counted are the
\* requests that change nothing, and a store that is not reachable yet when
\* the process starts.
MaxEvents == 3

\* the request slots; slot 0 takes the call that follows the race
Slots == 0..MaxSeeders

\* the slots of the requests that call ensure_seed_data
Seeders == 1..MaxSeeders

(* ------------------------- values and strings ------------------------- *)

\* Python None
None == "None"

\* str(e)[:80] keeps at most this many characters
TruncLen == 80

\* default of the limit parameter of GET /api/reviews
DefaultLimit == 50

Min(a, b) == IF a < b THEN a ELSE b

\* The characters of the strings that are searched or parsed.  Strings are
\* atoms for TLC, so the ones that are matched character by character are
\* spelled out here.
Chars(s) ==
  CASE s = "Neem Herbal Oil" -> <<"N", "e", "e", "m", " ", "H", "e", "r", "b", "a", "l", " ", "O", "i", "l">>
    [] s = "Cold-pressed neem oil for skin and scalp." -> <<"C", "o", "l", "d", "-", "p", "r", "e", "s", "s", "e", "d", " ", "n", "e", "e", "m", " ", "o", "i", "l", " ", "f", "o", "r", " ", "s", "k", "i", "n", " ", "a", "n", "d", " ", "s", "c", "a", "l", "p", ".">>
    [] s = "Ashwagandha Capsules" -> <<"A", "s", "h", "w", "a", "g", "a", "n", "d", "h", "a", " ", "C", "a", "p", "s", "u", "l", "e", "s">>
    [] s = "Stress relief and vitality support." -> <<"S", "t", "r", "e", "s", "s", " ", "r", "e", "l", "i", "e", "f", " ", "a", "n", "d", " ", "v", "i", "t", "a", "l", "i", "t", "y", " ", "s", "u", "p", "p", "o", "r", "t", ".">>
    [] s = "DigestEase Arishta" -> <<"D", "i", "g", "e", "s", "t", "E", "a", "s", "e", " ", "A", "r", "i", "s", "h", "t", "a">>
    [] s = "Supports digestive comfort." -> <<"S", "u", "p", "p", "o", "r", "t", "s", " ", "d", "i", "g", "e", "s", "t", "i", "v", "e", " ", "c", "o", "m", "f", "o", "r", "t", ".">>
    [] s = "Copper Puja Kalash" -> <<"C", "o", "p", "p", "e", "r", " ", "P", "u", "j", "a", " ", "K", "a", "l", "a", "s", "h">>
    [] s = "Traditional copper pot for rituals." -> <<"T", "r", "a", "d", "i", "t", "i", "o", "n", "a", "l", " ", "c", "o", "p", "p", "e", "r", " ", "p", "o", "t", " ", "f", "o", "r", " ", "r", "i", "t", "u", "a", "l", "s", ".">>
    [] s = "Joint Relief Balm" -> <<"J", "o", "i", "n", "t", " ", "R", "e", "l", "i", "e", "f", " ", "B", "a", "l", "m">>
    [] s = "Warming balm for joints and muscles." -> <<"W", "a", "r", "m", "i", "n", "g", " ", "b", "a", "l", "m", " ", "f", "o", "r", " ", "j", "o", "i", "n", "t", "s", " ", "a", "n", "d", " ", "m", "u", "s", "c", "l", "e", "s", ".">>
    [] s = "Brahmi Oil" -> <<"B", "r", "a", "h", "m", "i", " ", "O", "i", "l">>
    [] s = "Tulsi Tea" -> <<"T", "u", "l", "s", "i", " ", "T", "e", "a">>
    [] s = "" -> <<>>
    [] s = "neem" -> <<"n", "e", "e", "m">>
    [] s = "n.em" -> <<"n", ".", "e", "m">>
    [] s = "OIL" -> <<"O", "I", "L">>
    [] s = "a@b.co" -> <<"a", "@", "b", ".", "c", "o">>
    [] s = "ab.co" -> <<"a", "b", ".", "c", "o">>
    [] s = "a@b" -> <<"a", "@", "b">>
    [] s = "a@@b.co" -> <<"a", "@", "@", "b", ".", "c", "o">>
    [] s = "a.@b.co" -> <<"a", ".", "@", "b", ".", "c", "o">>

UpperCase == <<"A", "B", "C", "D", "E", "F", "G", "H", "I", "J", "K", "L", "M",
               "N", "O", "P", "Q", "R", "S", "T", "U", "V", "W", "X", "Y", "Z">>

LowerCase == <<"a", "b", "c", "d", "e", "f", "g", "h", "i", "j", "k", "l", "m",
               "n", "o", "p", "q", "r", "s", "t", "u", "v", "w", "x", "y", "z">>

\* the lower-case letter of every upper-case one
FoldCase ==
  [c \in {UpperCase[i] : i \in 1..Len(UpperCase)} |->
     LowerCase[CHOOSE i \in 1..Len(UpperCase) : UpperCase[i] = c]]

\* case folding of one character (regex option "i")
ToLower(c) == IF c \in DOMAIN FoldCase THEN FoldCase[c] ELSE c

\* One pattern character against one text character under option "i".
\* Over the alphabet used here (letters, space, "-", "@", ".") the only regex
\* metacharacter is ".", which matches any character.
RegexCharMatches(p, t) ==
  \/ p = "."
  \/ ToLower(p) = ToLower(t)

\* {field: {"$regex": pattern, "$options": "i"}}: the pattern is found
\* somewhere in the field's value; a null field never matches.
RegexSearch(pattern, value) ==
  /\ value # None
  /\ LET pat == Chars(pattern)
         txt == Chars(value)
     IN \E off \in 0..(Len(txt) - Len(pat)) :
          \A j \in 1..Len(pat) : RegexCharMatches(pat[j], txt[off + j])

\* Python truthiness of an Optional[str] parameter: None and "" are falsy
Truthy(v) == v # None /\ v # ""

EmptyMap == [k \in {} |-> None]

(* ------------------------ schemas (validation) ------------------------ *)

\* EmailStr: one "@", a non-empty local part without leading, trailing or
\* doubled dots, and a domain of at least two non-empty labels.
DotsOk(part) ==
  /\ Len(part) > 0
  /\ part[1] # "."
  /\ part[Len(part)] # "."
  /\ \A i \in 1..(Len(part) - 1) : ~(part[i] = "." /\ part[i + 1] = ".")

EmailStr(v) ==
  /\ LET cs == Chars(v)
         ats == {i \in 1..Len(cs) : cs[i] = "@"}
     IN /\ Cardinality(ats) = 1
        /\ LET at == CHOOSE i \in ats : TRUE
               local == SubSeq(cs, 1, at - 1)
               domain == SubSeq(cs, at + 1, Len(cs))
           IN /\ DotsOk(local)
              /\ DotsOk(domain)
              /\ \E i \in 1..Len(domain) : domain[i] = "."

\* A request payload is a function from the keys its JSON carries with a
\* value to their values; the keys it carries as null are listed under
\* "nulls" and have no value.
Nulls(p) == IF "nulls" \in DOMAIN p THEN p["nulls"] ELSE {}

\* A field declared without a default and not Optional must be carried,
\* and with a value: null is not one.
Required(p, k) == k \in DOMAIN p /\ k \notin Nulls(p)

\* a field declared with a default takes it when the key is not carried
Default(p, k, d) == IF k \in DOMAIN p THEN p[k] ELSE d

\* an Optional field: null is a value of it, whatever its default
Optional(p, k, d, none) == IF k \in Nulls(p) THEN none ELSE Default(p, k, d)

\* a field with a default that is not Optional accepts no null
NotNull(p, k) == k \notin Nulls(p)

\* price: float = Field(..., ge=0); prices are counted in hundredths
PriceOk(price) == price >= 0

\* a rating field that lost its upper bound
RatingOk_NoUpperBound(rating) == rating >= 1

\* rating: int = Field(..., ge=1, le=5)
RatingOk(rating) == rating >= 1 /\ rating <= 5

Product_valid(p) ==
  /\ Required(p, "title")
  /\ Required(p, "price") /\ PriceOk(p.price)
  /\ Required(p, "category")
  /\ NotNull(p, "in_stock")

Product(p) ==
  [title |-> p.title,
   description |-> Optional(p, "description", None, None),
   price |-> p.price,
   category |-> p.category,
   subcategory |-> Optional(p, "subcategory", None, None),
   image |-> Optional(p, "image", None, None),
   in_stock |-> Default(p, "in_stock", TRUE)]

Review_valid(r) ==
  /\ Required(r, "name")
  /\ Required(r, "rating") /\ RatingOk(r.rating)
  /\ Required(r, "comment")

Review(r) ==
  [name |-> r.name,
   rating |-> r.rating,
   comment |-> r.comment,
   source |-> Optional(r, "source", "website", None)]

Consultation_valid(c) ==
  /\ Required(c, "full_name")
  /\ Required(c, "email") /\ EmailStr(c.email)
  /\ Required(c, "mode")
  /\ NotNull(c, "service")

Consultation(c) ==
  [full_name |-> c.full_name,
   email |-> c.email,
   phone |-> Optional(c, "phone", None, None),
   mode |-> c.mode,
   preferred_date |-> Optional(c, "preferred_date", None, None),
   message |-> Optional(c, "message", None, None),
   service |-> Default(c, "service", "ayurvedic")]

ContactMessage_valid(c) ==
  /\ Required(c, "full_name")
  /\ Required(c, "email") /\ EmailStr(c.email)
  /\ Required(c, "topic")
  /\ Required(c, "message")

ContactMessage(c) ==
  [full_name |-> c.full_name,
   email |-> c.email,
   topic |-> c.topic,
   message |-> c.message,
   channel |-> Optional(c, "channel", "general", None)]

BlogPost_valid(b) ==
  /\ Required(b, "title")
  /\ Required(b, "slug")
  /\ Required(b, "category")
  /\ Required(b, "excerpt")
  /\ Required(b, "content")

\* published_at: Optional[datetime] is a sequence of length at most one:
\* <<>> is None and <<t>> is the instant t
BlogPost(b) ==
  [title |-> b.title,
   slug |-> b.slug,
   category |-> b.category,
   excerpt |-> b.excerpt,
   content |-> b.content,
   cover_image |-> Optional(b, "cover_image", None, None),
   tags |-> Optional(b, "tags", None, None),
   published_at |-> Optional(b, "published_at", <<>>, <<>>)]

(* ------------------ document store (database.py) ---------------------- *)

Collections == {"product", "review", "blogpost", "consultation", "contactmessage"}

HexDigits == <<"0", "1", "2", "3", "4", "5", "6", "7",
               "8", "9", "a", "b", "c", "d", "e", "f">>

\* A collection is the set of its documents: section 4.2 guarantees no
\* order among the documents a query returns.

\* the fields of a stored document other than its identifier
Body(d) == [k \in DOMAIN d \ {"_id"} |-> d[k]]

\* The store-assigned identifier.  Identifiers are opaque and unique and no
\* handler looks into one, so a document is named by its collection, its
\* fields and its number among the documents with these fields; documents
\* are never deleted, so the name is the document's for good.
ObjectId(coll, body, n) == [coll |-> coll, of |-> body, n |-> n]

\* str(ObjectId): the identifier as a string, its number in hexadecimal
RECURSIVE HexStr(_)
HexStr(n) ==
  IF n < 16
    THEN <<HexDigits[n + 1]>>
    ELSE HexStr(n \div 16) \o <<HexDigits[(n % 16) + 1]>>

str(id) == [coll |-> id.coll, of |-> id.of, hex |-> HexStr(id.n)]

\* the identifier a new document with these fields gets
NewId(st, coll, body) ==
  ObjectId(coll, body, Cardinality({d \in st[coll] : Body(d) = body}) + 1)

\* insert_one: the document gets a new identifier and joins its collection
insert_one(st, coll, body) ==
  [st EXCEPT ![coll] = @ \cup {("_id" :> NewId(st, coll, body)) @@ body}]

\* One document against a filter: every key of the filter must hold; "$or"
\* holds when one of its regex conditions does, any other key is equality.
Matches(d, filt) ==
  \A k \in DOMAIN filt :
    IF k = "$or"
      THEN \E i \in 1..Len(filt[k]) : RegexSearch(filt[k][i].regex, d[filt[k][i].field])
      ELSE d[k] = filt[k]

\* get_documents(collection, filter, limit): the results the call may
\* return.  It returns the matching documents, and when a limit is given
\* (0: none) and more documents match, any `limit` of them.
get_documents(st, coll, filt, limit) ==
  LET found == {d \in st[coll] : Matches(d, filt)}
  IN IF limit > 0 /\ Cardinality(found) > limit
       THEN {part \in SUBSET found : Cardinality(part) = limit}
       ELSE {found}

\* count_documents({})
count_documents(st, coll) == Cardinality(st[coll])

(* --------------------------- seeding ---------------------------------- *)

\* the collections ensure_seed_data looks at, in its order
SeedOrder == <<"product", "review", "blogpost">>

ProductSamples ==
  <<Product([title |-> "Neem Herbal Oil",
             description |-> "Cold-pressed neem oil for skin and scalp.",
             price |-> 1299, category |-> "Ayurvedic Products",
             subcategory |-> "Oils", image |-> None]),
    Product([title |-> "Ashwagandha Capsules",
             description |-> "Stress relief and vitality support.",
             price |-> 1850, category |-> "Ayurvedic Products",
             subcategory |-> "Capsules & Tablets", image |-> None]),
    Product([title |-> "DigestEase Arishta",
             description |-> "Supports digestive comfort.",
             price |-> 1400, category |-> "Ayurvedic Products",
             subcategory |-> "Arishta & Asava", image |-> None]),
    Product([title |-> "Copper Puja Kalash",
             description |-> "Traditional copper pot for rituals.",
             price |-> 2400, category |-> "Traditional Products",
             subcategory |-> "Puja Items", image |-> None]),
    Product([title |-> "Joint Relief Balm",
             description |-> "Warming balm for joints and muscles.",
             price |-> 750, category |-> "Disease-Related Products",
             subcategory |-> "Joint & Muscle Pain", image |-> None])>>

ReviewSamples ==
  <<Review([name |-> "Anika", rating |-> 5,
            comment |-> "Amazing quality and very helpful staff!"]),
    Review([name |-> "Ravi", rating |-> 4,
            comment |-> "Consultation was insightful and products worked well."])>>

BlogSamples ==
  <<BlogPost([title |-> "Herbal Wisdom: Neem", slug |-> "herbal-wisdom-neem",
              category |-> "Herbal Wisdom",
              excerpt |-> "Discover the multifaceted benefits of Neem.",
              content |-> "Long form content about Neem..."]),
    BlogPost([title |-> "Healing Through Ayurveda: Digestive Balance",
              slug |-> "healing-ayurveda-digestive",
              category |-> "Healing Through Ayurveda",
              excerpt |-> "Rekindle your digestive fire.",
              content |-> "Content on Agni and digestion..."]),
    BlogPost([title |-> "Power of Nature: Ashwagandha",
              slug |-> "power-of-nature-ashwagandha",
              category |-> "Power of Nature",
              excerpt |-> "Ashwagandha for stress relief.",
              content |-> "Content about adaptogens..."]),
    BlogPost([title |-> "Ayurveda for Daily Life: Morning Rituals",
              slug |-> "ayurveda-daily-life-morning",
              category |-> "Ayurveda for Daily Life",
              excerpt |-> "Simple practices to start your day.",
              content |-> "Dinacharya overview..."])>>

Samples(coll) ==
  CASE coll = "product" -> ProductSamples
    [] coll = "review" -> ReviewSamples
    [] coll = "blogpost" -> BlogSamples

\* a count check that also seeds a collection holding one document
NeedsSeed_CountAtMostOne(n) == n <= 1

\* a count check that every count passes
NeedsSeed_NonNegative(n) == n >= 0

\* `if db[coll].count_documents({}) == 0`
NeedsSeed(n) == n = 0

\* a seeding routine whose failures reach its caller
SeedRaises_Propagates(failed) == failed

\* `except Exception: pass`: no failure leaves ensure_seed_data
SeedRaises(failed) == FALSE

\* Outcomes of one store operation: TRUE when it succeeds.  Every store
\* operation can raise while the environment has events left; without a
\* store handle every one does (db[...] and create_document raise), and
\* SpecRace keeps the store reachable.
OpOutcomes ==
  IF ~db THEN {FALSE} ELSE IF events < MaxEvents THEN {TRUE, FALSE} ELSE {TRUE}

\* a store operation of a configured store that raises is one event
Fault(ok) == events' = IF ok \/ ~db THEN events ELSE events + 1

\* the places in the seeding order of the collections that hold a document
Populated(st) == {i \in 1..Len(SeedOrder) : count_documents(st, SeedOrder[i]) > 0}

\* a request slot that runs no caller of ensure_seed_data
Idle ==
  [stage |-> "idle", op |-> "none", coll |-> 0, i |-> 0,
   held |-> {}, failed |-> FALSE]

\* entry of ensure_seed_data on behalf of `op`: the count of the first
\* collection is next.  `held` remembers which collections were populated
\* at the call.
Called(op) ==
  [stage |-> "count", op |-> op, coll |-> 1, i |-> 0,
   held |-> Populated(store), failed |-> FALSE]

\* ensure_seed_data has returned to its caller
Returned(t) == [t EXCEPT !.stage = "tail", !.coll = 0, !.i = 0]

\* where an invocation goes once it is through with its current collection
AfterColl(t) ==
  IF t.coll < Len(SeedOrder)
    THEN [t EXCEPT !.stage = "count", !.coll = t.coll + 1, !.i = 0]
    ELSE Returned(t)

\* a try block around each collection: a failure moves on to the next one
Caught_NextCollection(t) == AfterColl([t EXCEPT !.failed = TRUE])

\* A store operation raised: the exception leaves the single try block, so
\* nothing after it is attempted and what was inserted stays.
Caught(t) == Returned([t EXCEPT !.failed = TRUE])

NoSeed == [called |-> FALSE, held |-> {}, failed |-> FALSE]

\* what a finished request shows of the seeding call it made
SeedLog(t) == [called |-> TRUE, held |-> t.held, failed |-> t.failed]

\* The history of the collections: those a seeding call left with some but
\* not all of its placeholders when it failed, those whose first document
\* came from a POST, and whether GET /test has made a degraded report.
NoHist == [partial |-> {}, byPost |-> {}, degraded |-> FALSE]

\* the seeded collections
Seeded == {SeedOrder[i] : i \in 1..Len(SeedOrder)}

\* a seeding call failed after inserting some placeholders of c
LeftPartial(c) == [hist EXCEPT !.partial = @ \cup {c}]

\* a POST stored the first document of a seeded collection
PostedFirst(c) == IF c \in Seeded THEN [hist EXCEPT !.byPost = @ \cup {c}] ELSE hist

\* GET /test reported a store without handle or one that raised
Degraded == [hist EXCEPT !.degraded = TRUE]

(* ------------------------- request inputs ----------------------------- *)

ProductQueries ==
  {[q |-> None, category |-> None, subcategory |-> None],
   [q |-> "", category |-> "", subcategory |-> ""],
   [q |-> "neem", category |-> None, subcategory |-> None],
   [q |-> "n.em", category |-> None, subcategory |-> None],
   [q |-> None, category |-> "Ayurvedic Products", subcategory |-> None],
   [q |-> "OIL", category |-> "Ayurvedic Products", subcategory |-> "Oils"]}

ProductPayloads ==
  {[title |-> "Tulsi Tea", price |-> 0, category |-> "Ayurvedic Products"],
   [title |-> "Brahmi Oil", description |-> "", price |-> 950,
    category |-> "Ayurvedic Products", subcategory |-> "Oils", in_stock |-> FALSE,
    nulls |-> {"image"}],
   [title |-> "Tulsi Tea", price |-> -1, category |-> "Ayurvedic Products"],
   [title |-> "Tulsi Tea", price |-> 0],
   [price |-> 0, category |-> "Ayurvedic Products", nulls |-> {"title"}]}

ReviewPayloads ==
  {[name |-> "Maya", rating |-> 1, comment |-> "ok"],
   [name |-> "Maya", rating |-> 0, comment |-> "ok"],
   [name |-> "Maya", rating |-> 6, comment |-> "ok"],
   [name |-> "Maya", rating |-> 5, nulls |-> {"comment"}]}

BlogPayloads ==
  {[title |-> "Oils", slug |-> "oils", category |-> "Herbal Wisdom",
    excerpt |-> "e", content |-> "c"],
   [title |-> "Oils", slug |-> "oils", category |-> "Herbal Wisdom",
    excerpt |-> "e", content |-> "c", published_at |-> <<1>>],
   [title |-> "Oils", category |-> "Herbal Wisdom", excerpt |-> "e", content |-> "c"],
   [title |-> "Oils", category |-> "Herbal Wisdom", excerpt |-> "e", content |-> "c",
    nulls |-> {"slug"}]}

BlogQueries == {None, "", "Herbal Wisdom"}

\* instants datetime.utcnow() may return
Times == {2}

ConsultationPayloads ==
  {[full_name |-> "Maya", email |-> "a@b.co", mode |-> "online"],
   [full_name |-> "Maya", email |-> "a@b", mode |-> "online"],
   [full_name |-> "Maya", email |-> "a@@b.co", mode |-> "online"],
   [full_name |-> "Maya", mode |-> "online"]}

ContactPayloads ==
  {[full_name |-> "Maya", email |-> "a@b.co", topic |-> "t", message |-> "m"],
   [full_name |-> "Maya", email |-> "ab.co", topic |-> "t", message |-> "m"],
   [full_name |-> "Maya", email |-> "a.@b.co", topic |-> "t", message |-> "m"],
   [full_name |-> "Maya", email |-> "a@b.co", message |-> "m", nulls |-> {"topic"}]}

ReviewLimits == {1, DefaultLimit}

\* lengths of the message of the exception list_collection_names raises
MessageLengths == {80, 81}

\* an exception message of n characters
Message(n) == [i \in 1..n |-> HexDigits[(i % 16) + 1]]

(* --------------------------- responses -------------------------------- *)

Response(op, req, status, body, store_ok) ==
  [op |-> op, req |-> req, status |-> status, body |-> body, store_ok |-> store_ok,
   seed |-> NoSeed]

\* FastAPI's answer to a payload the schema rejects; the handler is not run
ValidationError(op, req) == Response(op, req, 422, "validation error", TRUE)

\* HTTPException(status_code=500, detail=str(e))
ServerError(op, req) == Response(op, req, 500, "storage error", FALSE)

\* the framework's answer when an exception leaves a handler; `store_ok`
\* tells whether the handler's own store operation would have succeeded
InternalServerError(op, req, store_ok) ==
  Response(op, req, 500, "Internal Server Error", store_ok)

\* it["_id"] = str(it.get("_id")) for every returned document
Stringified(items) == {[d EXCEPT !["_id"] = str(@)] : d \in items}

\* no request is being handled
NoResponse == Response("none", <<>>, 0, "", TRUE)

(* ------------------------------ handlers ------------------------------ *)

\* Requests are served once startup has completed, by a pool of threads:
\* handlers run concurrently and every store operation is one step.  A
\* handler that makes a single store operation is one step; the callers of
\* ensure_seed_data take one step per count check and per insert, and one
\* more for what follows the call.  A finished response leaves the process
\* before the next step is taken.
Ready == started /\ resp.op = "none"

\* The startup call's first store operation: the store may not be
\* reachable yet while the process starts.
FirstOfStartup(t) == t.op = "on_startup" /\ t.stage = "count" /\ t.coll = 1

\* `if db[coll].count_documents({}) == 0` of the invocation in slot s
SeedCount(s) ==
  /\ resp.op = "none"
  /\ th[s].stage = "count"
  /\ \E ok \in (IF db /\ FirstOfStartup(th[s]) THEN {TRUE, FALSE} ELSE OpOutcomes) :
       /\ IF FirstOfStartup(th[s]) THEN UNCHANGED events ELSE Fault(ok)
       /\ LET t == th[s]
          IN th' = [th EXCEPT ![s] =
                      IF ~ok
                        THEN Caught(t)
                        ELSE IF NeedsSeed(count_documents(store, SeedOrder[t.coll]))
                          THEN [t EXCEPT !.stage = "insert", !.i = 1]
                          ELSE AfterColl(t)]
  /\ UNCHANGED <<db, store, started, resp, issued, hist>>

\* one create_document(coll, sample) of the loop of the invocation in slot s
SeedInsert(s) ==
  /\ resp.op = "none"
  /\ th[s].stage = "insert"
  /\ \E ok \in OpOutcomes :
       /\ Fault(ok)
       /\ LET t == th[s]
              c == SeedOrder[t.coll]
          IN IF ok
               THEN /\ store' = insert_one(store, c, Samples(c)[t.i])
                    /\ th' = [th EXCEPT ![s] =
                                IF t.i < Len(Samples(c))
                                  THEN [t EXCEPT !.i = t.i + 1]
                                  ELSE AfterColl(t)]
                    /\ UNCHANGED hist
               ELSE /\ th' = [th EXCEPT ![s] = Caught(t)]
                    /\ hist' = IF t.i > 1 THEN LeftPartial(c) ELSE hist
                    /\ UNCHANGED store
  /\ UNCHANGED <<db, started, resp, issued>>

\* one store operation of the ensure_seed_data invocation in slot s
ensure_seed_data(s) == SeedCount(s) \/ SeedInsert(s)

\* @app.on_event("startup"): the hook calls ensure_seed_data
on_startup ==
  /\ ~started
  /\ resp.op = "none"
  /\ \A s \in Slots : th[s].stage = "idle"
  /\ th' = [th EXCEPT ![1] = Called("on_startup")]
  /\ UNCHANGED <<db, store, started, events, resp, issued, hist>>

\* ... and the application starts serving once the hook has returned
on_startup_return(s) ==
  /\ resp.op = "none"
  /\ th[s].stage = "tail"
  /\ th[s].op = "on_startup"
  /\ started' = ~SeedRaises(th[s].failed)
  /\ resp' = [Response("on_startup", <<>>, 0, "", TRUE) EXCEPT !.seed = SeedLog(th[s])]
  /\ th' = [th EXCEPT ![s] = Idle]
  /\ UNCHANGED <<db, store, events, issued, hist>>

\* GET /
read_root ==
  /\ Ready
  /\ resp' = Response("read_root", <<>>, 200, "Ayurvedic Pharmacy API running", TRUE)
  /\ UNCHANGED <<db, store, started, events, issued, th, hist>>

\* GET /api/categories
get_categories ==
  /\ Ready
  /\ resp' = Response("get_categories", <<>>, 200, "PRODUCT_CATEGORIES", TRUE)
  /\ UNCHANGED <<db, store, started, events, issued, th, hist>>

\* GET /api/services
get_services ==
  /\ Ready
  /\ resp' = Response("get_services", <<>>, 200, "SERVICES_INFO", TRUE)
  /\ UNCHANGED <<db, store, started, events, issued, th, hist>>

\* the error reported at full length
ConnectedButError_NoTruncation(msg) ==
  [text |-> "Connected but Error: ", detail |-> msg]

\* the `database` field when listing the collections raised e
ConnectedButError(msg) ==
  [text |-> "Connected but Error: ", detail |-> SubSeq(msg, 1, Min(TruncLen, Len(msg)))]

\* GET /test.  Without a handle nothing is asked of the store; with one,
\* list_collection_names() is the handler's store operation.  Reading
\* db.name and the environment asks nothing of the store, so the outer
\* `except` has nothing to catch.
test_database ==
  /\ Ready
  /\ \E ok \in OpOutcomes :
       /\ Fault(ok)
       /\ \E n \in (IF db /\ ~ok THEN MessageLengths ELSE {0}) :
            /\ resp' = Response("test_database", [message |-> Message(n)], 200,
                      IF ~db
                        THEN [backend |-> "Running",
                              database |-> [text |-> "Not Available", detail |-> <<>>],
                              connection_status |-> "Not Connected",
                              collections |-> {}]
                        ELSE [backend |-> "Running",
                              database |-> IF ok
                                             THEN [text |-> "Connected & Working",
                                                   detail |-> <<>>]
                                             ELSE ConnectedButError(Message(n)),
                              connection_status |-> "Connected",
                              collections |-> IF ok
                                                THEN {c \in Collections : store[c] # {}}
                                                ELSE {}],
                      ok)
            /\ hist' = IF ok THEN hist ELSE Degraded
  /\ UNCHANGED <<db, store, started, issued, th>>

\* a filter built with `is not None` tests in place of truthiness
ProductFilter_NoTruthCheck(q, category, subcategory) ==
  (IF category # None THEN "category" :> category ELSE EmptyMap) @@
  (IF subcategory # None THEN "subcategory" :> subcategory ELSE EmptyMap) @@
  (IF q # None
     THEN "$or" :> <<[field |-> "title", regex |-> q, options |-> "i"],
                     [field |-> "description", regex |-> q, options |-> "i"]>>
     ELSE EmptyMap)

\* the filter list_products builds from its parameters
ProductFilter(q, category, subcategory) ==
  (IF Truthy(category) THEN "category" :> category ELSE EmptyMap) @@
  (IF Truthy(subcategory) THEN "subcategory" :> subcategory ELSE EmptyMap) @@
  (IF Truthy(q)
     THEN "$or" :> <<[field |-> "title", regex |-> q, options |-> "i"],
                     [field |-> "description", regex |-> q, options |-> "i"]>>
     ELSE EmptyMap)

\* a request takes the first slot that is free
FreeSlot(s) == th[s].stage = "idle" /\ \A r \in Seeders : r < s => th[r].stage # "idle"

\* GET /api/products: the request arrives, takes slot s, and the handler
\* starts by calling ensure_seed_data
list_products(s) ==
  /\ Ready
  /\ FreeSlot(s)
  /\ events < MaxEvents
  /\ events' = events + 1
  /\ th' = [th EXCEPT ![s] = Called("list_products")]
  /\ UNCHANGED <<db, store, started, resp, issued, hist>>

\* ... then builds the filter from its parameters and runs the query.  The
\* parameters play no part in the seeding, so they are drawn here.
list_products_query(s) ==
  /\ resp.op = "none"
  /\ th[s].stage = "tail"
  /\ th[s].op = "list_products"
  /\ \E req \in ProductQueries, ok \in OpOutcomes :
       /\ Fault(ok)
       /\ \E items \in get_documents(store, "product",
                                     ProductFilter(req.q, req.category, req.subcategory), 0) :
          LET answer == IF SeedRaises(th[s].failed)
                          THEN InternalServerError("list_products", req, ok)
                          ELSE IF ok
                            THEN Response("list_products", req, 200, Stringified(items), TRUE)
                            ELSE ServerError("list_products", req)
          IN resp' = [answer EXCEPT !.seed = SeedLog(th[s])]
  /\ th' = [th EXCEPT ![s] = Idle]
  /\ UNCHANGED <<db, store, started, issued, hist>>

\* The part shared by the handlers that insert one validated document:
\* create_document(coll, body) and the identifier it returns.
Create(op, req, coll, body, extra) ==
  \E ok \in OpOutcomes :
    IF ok
      THEN /\ events < MaxEvents
           /\ events' = events + 1
           /\ store' = insert_one(store, coll, body)
           /\ issued' = issued \cup {[op |-> op, id |-> str(NewId(store, coll, body)),
                                      body |-> body]}
           /\ hist' = IF store[coll] = {} THEN PostedFirst(coll) ELSE hist
           /\ resp' = Response(op, req, 200,
                               ("_id" :> str(NewId(store, coll, body))) @@ extra, TRUE)
      ELSE /\ Fault(ok)
           /\ resp' = ServerError(op, req)
           /\ UNCHANGED <<store, issued, hist>>

\* a payload the schema rejects never reaches the handler
Rejected(op, req) ==
  /\ resp' = ValidationError(op, req)
  /\ UNCHANGED <<store, events, issued, hist>>

\* POST /api/products
create_product ==
  /\ Ready
  /\ \E req \in ProductPayloads :
       IF Product_valid(req)
         THEN Create("create_product", req, "product", Product(req), EmptyMap)
         ELSE Rejected("create_product", req)
  /\ UNCHANGED <<db, started, th>>

\* GET /api/reviews
get_reviews ==
  /\ Ready
  /\ \E limit \in ReviewLimits, ok \in OpOutcomes :
       /\ Fault(ok)
       /\ \E items \in get_documents(store, "review", EmptyMap, limit) :
            resp' = IF ok
                      THEN Response("get_reviews", [limit |-> limit], 200,
                                    Stringified(items), TRUE)
                      ELSE ServerError("get_reviews", [limit |-> limit])
  /\ UNCHANGED <<db, store, started, issued, th, hist>>

\* POST /api/reviews
add_review ==
  /\ Ready
  /\ \E req \in ReviewPayloads :
       IF Review_valid(req)
         THEN Create("add_review", req, "review", Review(req), EmptyMap)
         ELSE Rejected("add_review", req)
  /\ UNCHANGED <<db, started, th>>

\* GET /api/blog: the request arrives, takes slot s, and the handler
\* starts by calling ensure_seed_data
list_blog(s) ==
  /\ Ready
  /\ FreeSlot(s)
  /\ events < MaxEvents
  /\ events' = events + 1
  /\ th' = [th EXCEPT ![s] = Called("list_blog")]
  /\ UNCHANGED <<db, store, started, resp, issued, hist>>

\* ... then queries the posts, by category if one is given
list_blog_query(s) ==
  /\ resp.op = "none"
  /\ th[s].stage = "tail"
  /\ th[s].op = "list_blog"
  /\ \E category \in BlogQueries, ok \in OpOutcomes :
       /\ Fault(ok)
       /\ \E posts_found \in get_documents(store, "blogpost",
                             IF Truthy(category) THEN "category" :> category ELSE EmptyMap, 0) :
          LET answer == IF SeedRaises(th[s].failed)
                          THEN InternalServerError("list_blog", [category |-> category], ok)
                          ELSE IF ok
                            THEN Response("list_blog", [category |-> category], 200,
                                          Stringified(posts_found), TRUE)
                            ELSE ServerError("list_blog", [category |-> category])
          IN resp' = [answer EXCEPT !.seed = SeedLog(th[s])]
  /\ th' = [th EXCEPT ![s] = Idle]
  /\ UNCHANGED <<db, store, started, issued, hist>>

\* a handler that stamps every post with the current time
WithPublishedAt_AlwaysNow(post, now) == [post EXCEPT !.published_at = <<now>>]

\* `if not post.published_at: post.published_at = datetime.utcnow()`
WithPublishedAt(post, now) ==
  IF post.published_at = <<>>
    THEN [post EXCEPT !.published_at = <<now>>]
    ELSE post

\* POST /api/blog
create_blog ==
  /\ Ready
  /\ \E req \in BlogPayloads :
       IF BlogPost_valid(req)
         THEN \E now \in Times :
                Create("create_blog", [payload |-> req, now |-> now], "blogpost",
                       WithPublishedAt(BlogPost(req), now), EmptyMap)
         ELSE Rejected("create_blog", [payload |-> req])
  /\ UNCHANGED <<db, started, th>>

\* POST /api/consultations
book_consultation ==
  /\ Ready
  /\ \E req \in ConsultationPayloads :
       IF Consultation_valid(req)
         THEN Create("book_consultation", req, "consultation", Consultation(req),
                     "status" :> "received")
         ELSE Rejected("book_consultation", req)
  /\ UNCHANGED <<db, started, th>>

\* POST /api/contact
contact ==
  /\ Ready
  /\ \E req \in ContactPayloads :
       IF ContactMessage_valid(req)
         THEN Create("contact", req, "contactmessage", ContactMessage(req),
                     "status" :> "received")
         ELSE Rejected("contact", req)
  /\ UNCHANGED <<db, started, th>>

(* --------------------------- specification ---------------------------- *)

EmptyStore == [c \in Collections |-> {}]

\* create_document(coll, body) for every body of the sequence, in its order
RECURSIVE InsertAll(_, _, _)
InsertAll(st, coll, bodies) ==
  IF bodies = <<>>
    THEN st
    ELSE InsertAll(insert_one(st, coll, Head(bodies)), coll, Tail(bodies))

\* what a seeding call that met no failure leaves of an empty store
SeededStore ==
  InsertAll(InsertAll(InsertAll(EmptyStore, "product", ProductSamples),
                      "review", ReviewSamples),
            "blogpost", BlogSamples)

\* what a seeding call leaves whose third insert raised
PartialStore == InsertAll(EmptyStore, "product", SubSeq(ProductSamples, 1, 2))

\* what a process leaves that stored one review and never seeded
ReviewedStore ==
  insert_one(EmptyStore, "review", Review([name |-> "Maya", rating |-> 1, comment |-> "ok"]))

\* The store outlives the process: what earlier processes may have left.
InitStores == {EmptyStore, PartialStore, ReviewedStore, SeededStore}

\* the history of a store an earlier process left
HistOf(st) ==
  [NoHist EXCEPT
     !.partial = {c \in Seeded :
                    /\ st[c] # {}
                    /\ \E i \in 1..Len(Samples(c)) :
                         \A d \in st[c] : Body(d) # Samples(c)[i]
                    /\ \A d \in st[c] :
                         \E i \in 1..Len(Samples(c)) : Body(d) = Samples(c)[i]},
     !.byPost = {c \in Seeded :
                   /\ st[c] # {}
                   /\ \A d \in st[c] :
                        \A i \in 1..Len(Samples(c)) : Body(d) # Samples(c)[i]}]

\* the process after import: the handle is configured or not, the store is
\* as it was left, nothing has run
Init ==
  /\ db \in BOOLEAN
  /\ store \in (IF db THEN InitStores ELSE {EmptyStore})
  /\ started = FALSE
  /\ events = 0
  /\ resp = NoResponse
  /\ issued = {}
  /\ th = [s \in Slots |-> Idle]
  /\ hist = HistOf(store)

\* The response leaves the process, which keeps nothing about the request.
Respond ==
  /\ resp.op # "none"
  /\ resp' = NoResponse
  /\ UNCHANGED <<db, store, started, events, issued, th, hist>>

\* Startup and what every request takes part in: the store operations of
\* the ensure_seed_data invocations and the response leaving the process.
Startup ==
  \/ on_startup
  \/ \E s \in Slots : ensure_seed_data(s)
  \/ \E s \in Slots : on_startup_return(s)
  \/ Respond

\* Startup, then every endpoint: the requests run step by step beside one
\* another, as many callers of ensure_seed_data in flight together as
\* there are slots for them.
Next ==
  \/ Startup
  \/ read_root
  \/ test_database
  \/ get_categories
  \/ \E s \in Seeders : list_products(s)
  \/ \E s \in Slots : list_products_query(s)
  \/ create_product
  \/ get_reviews
  \/ add_review
  \/ \E s \in Seeders : list_blog(s)
  \/ \E s \in Slots : list_blog_query(s)
  \/ create_blog
  \/ get_services
  \/ book_consultation
  \/ contact

Spec == Init /\ [][Next]_vars

(* ------------------ concurrent ensure_seed_data calls ----------------- *)

\* the invocations that were started together
Active == {s \in Seeders : th[s].stage # "idle"}

AllDone == Active # {} /\ \A s \in Active : th[s].stage = "tail"

\* a further call of ensure_seed_data once the concurrent ones have returned
SeedAgain ==
  /\ AllDone
  /\ th[0].stage = "idle"
  /\ th' = [th EXCEPT ![0] = Called("ensure_seed_data")]
  /\ UNCHANGED <<db, store, started, events, resp, issued, hist>>

\* k invocations have been called against an empty, reachable store
InitRace ==
  /\ db = TRUE
  /\ events = MaxEvents
  /\ store = EmptyStore
  /\ started = TRUE
  /\ resp = NoResponse
  /\ issued = {}
  /\ hist = NoHist
  /\ \E k \in Seeders :
       th = [s \in Slots |-> IF s \in 1..k THEN Called("ensure_seed_data") ELSE Idle]

NextRace ==
  \/ \E s \in Slots : ensure_seed_data(s)
  \/ SeedAgain

SpecRace == InitRace /\ [][NextRace]_vars

(* ------------------------------ properties ---------------------------- *)

PostOps == {"create_product", "add_review", "create_blog", "book_consultation", "contact"}

StaticOps == {"read_root", "get_categories", "get_services"}

\* this step is a successful create_document of the seeding loop in slot s
SeedInserts(s) == th[s].stage = "insert" /\ th'[s] # th[s] /\ store' # store

\* this step is a successful count check of the invocation in slot s
SeedCounts(s) == th[s].stage = "count" /\ th'[s] # th[s] /\ ~th'[s].failed

\* this step is a store operation of the invocation in slot s that raised
SeedFails(s) == th[s].stage \in {"count", "insert"} /\ ~th[s].failed /\ th'[s].failed

\* how many documents of the collection carry the i-th sample's fields
Copies(coll, i) ==
  Cardinality({d \in store[coll] : Body(d) = Samples(coll)[i]})

\* C1: a call of ensure_seed_data (from startup, GET /api/products or
\* GET /api/blog) inserts nothing into a seeded collection that held a
\* document when it was called, whatever else runs beside it; so does every
\* further call.
C1_SeedSkipsPopulated ==
  [][\A s \in Slots :
       SeedInserts(s) =>
         /\ th[s].coll \notin th[s].held
         /\ \A c \in Collections \ {SeedOrder[th[s].coll]} : store'[c] = store[c]]_vars

\* a call found the two products a failed seeding call had left, added
\* none and seeded the reviews and the posts; a later call found all three
\* collections populated and added nothing
C1_Witness ==
  /\ resp.op = "list_blog"
  /\ resp.seed.called
  /\ ~resp.seed.failed
  /\ resp.seed.held = 1..Len(SeedOrder)
  /\ "product" \in hist.partial
  /\ store["product"] = PartialStore["product"]
  /\ store["review"] = SeededStore["review"]
  /\ store["blogpost"] = SeededStore["blogpost"]

\* the payload a POST request carried
PayloadOf(r) == IF r.op = "create_blog" THEN r.req.payload ELSE r.req

RequiredFields(op) ==
  CASE op = "create_product" -> {"title", "price", "category"}
    [] op = "add_review" -> {"name", "rating", "comment"}
    [] op = "create_blog" -> {"title", "slug", "category", "excerpt", "content"}
    [] op = "book_consultation" -> {"full_name", "email", "mode"}
    [] op = "contact" -> {"full_name", "email", "topic", "message"}

\* the payload gives the field a value
Carries(p, k) == k \in DOMAIN p /\ ~("nulls" \in DOMAIN p /\ k \in p["nulls"])

\* An address is malformed when it is not local@domain: no "@" or several,
\* nothing before it, a dot first, last or doubled on either side, or a
\* domain that is a single label.
MalformedEmail(v) ==
  LET cs == Chars(v)
      n == Len(cs)
      At(i) == cs[i] = "@"
      Dot(i) == cs[i] = "."
  IN \/ n = 0
     \/ Cardinality({i \in 1..n : At(i)}) # 1
     \/ At(1) \/ At(n)
     \/ Dot(1) \/ Dot(n)
     \/ \E i \in 1..(n - 1) : (Dot(i) \/ At(i)) /\ (Dot(i + 1) \/ At(i + 1))
     \/ ~\E i, j \in 1..n : At(i) /\ Dot(j) /\ i < j

\* the payloads the claim says are rejected; a field carried as null is
\* missing its value
InvalidPayload(op, p) ==
  \/ \E k \in RequiredFields(op) : ~Carries(p, k)
  \/ op = "add_review" /\ Carries(p, "rating") /\ p.rating \notin 1..5
  \/ op = "create_product" /\ Carries(p, "price") /\ p.price < 0
  \/ op \in {"book_consultation", "contact"} /\ Carries(p, "email")
       /\ MalformedEmail(p.email)

\* C2: a POST whose payload has a rating outside 1..5, a negative price, a
\* malformed email or a missing required field is answered with a validation
\* error (422); no document is inserted, no identifier is returned, and
\* every collection is as before.
C2_ValidationPrecedesStorage ==
  [][resp'.op \in PostOps /\ InvalidPayload(resp'.op, PayloadOf(resp'))
       => /\ resp'.status = 422
          /\ store' = store
          /\ issued' = issued]_vars

\* a review rated 6 has been rejected by a process that holds documents
C2_Witness ==
  /\ resp.op = "add_review"
  /\ "rating" \in DOMAIN resp.req
  /\ resp.req.rating = 6
  /\ resp.status = 422
  /\ store["review"] # {}

Unfiltered(req) == ~Truthy(req.q) /\ ~Truthy(req.category) /\ ~Truthy(req.subcategory)

\* the products this process created
Created == {c \in issued : c.op = "create_product"}

\* the identifier strings of the documents a collection holds
StoredIds(coll) == {str(d["_id"]) : d \in store[coll]}

ContainsIgnoreCase(q, value) ==
  /\ value # None
  /\ LET pat == Chars(q)
         txt == Chars(value)
     IN \E off \in 0..(Len(txt) - Len(pat)) :
          \A j \in 1..Len(pat) : ToLower(pat[j]) = ToLower(txt[off + j])

\* the conjunction of predicates the claim attaches to a product query
SatisfiesQuery(d, req) ==
  /\ Truthy(req.category) => d.category = req.category
  /\ Truthy(req.subcategory) => d.subcategory = req.subcategory
  /\ Truthy(req.q) => \/ ContainsIgnoreCase(req.q, d.title)
                      \/ ContainsIgnoreCase(req.q, d.description)

\* C4: a successful GET /api/products returns exactly the stored products
\* that satisfy every supplied predicate: category and subcategory by
\* equality, q as a case-insensitive substring of title or description;
\* absent and empty parameters add no predicate.
C4_FilterSemantics ==
  (resp.op = "list_products" /\ resp.status = 200)
    => resp.body = Stringified({d \in store["product"] : SatisfiesQuery(d, resp.req)})

\* the collection a list request reads
ListedCollection(op) ==
  CASE op = "list_products" -> "product"
    [] op = "get_reviews" -> "review"
    [] op = "list_blog" -> "blogpost"

NoFilter(r) ==
  CASE r.op = "list_products" -> Unfiltered(r.req)
    [] r.op = "get_reviews" -> TRUE
    [] r.op = "list_blog" -> ~Truthy(r.req.category)

\* C5: after a list request for products, reviews or blog posts during
\* which every store operation succeeded, the collection it reads is not
\* empty (it was seeded if it had been empty), and without filters the
\* returned sequence is not empty.
C5_FirstAccessSeeds ==
  (/\ resp.op \in {"list_products", "get_reviews", "list_blog"}
   /\ resp.status = 200
   /\ ~resp.seed.failed)
  => /\ store[ListedCollection(resp.op)] # {}
     /\ (NoFilter(resp) => resp.body # {})

\* C6: once k interleaved ensure_seed_data invocations against an empty,
\* reachable store have all returned, every placeholder of every seeded
\* collection is stored at least once and at most k times, every stored
\* document is a placeholder, and a later call inserts nothing.
C6_BoundedDuplication ==
  AllDone =>
    /\ \A c \in Collections :
         IF \E i \in 1..Len(SeedOrder) : SeedOrder[i] = c
           THEN /\ \A i \in 1..Len(Samples(c)) :
                     Copies(c, i) >= 1 /\ Copies(c, i) <= Cardinality(Active)
                /\ \A d \in store[c] :
                     \E i \in 1..Len(Samples(c)) : Body(d) = Samples(c)[i]
           ELSE store[c] = {}
    /\ th[0].stage # "insert"
    /\ th[0].stage # "idle" => th[0].held = 1..Len(SeedOrder)

\* two invocations have both seeded the products, and a later call has run
C6_Witness ==
  /\ AllDone
  /\ Cardinality(Active) = 2
  /\ Copies("product", 1) = 2
  /\ th[0].stage = "tail"

\* the filter the handler of a finished list request built
FilterOf(r) ==
  IF r.op = "list_products"
    THEN ProductFilter(r.req.q, r.req.category, r.req.subcategory)
    ELSE IF Truthy(r.req.category) THEN "category" :> r.req.category ELSE EmptyMap

\* A seeding call whose store operation raised makes no further store
\* operation: it returns at once, with the store as it is, and its caller
\* goes on without calling it again.
NotRetried ==
  \A s \in Slots :
    /\ SeedFails(s) => store' = store /\ th'[s].stage = "tail" /\ th'[s].op = th[s].op
    /\ th[s].failed => th'[s].stage \in {"tail", "idle"}
    /\ th[s].failed /\ th'[s].stage = "idle" => resp'.op = th[s].op /\ resp'.seed.failed

\* C7: a failure inside ensure_seed_data never leaves it: the call returns
\* at once and is not made again by the request, startup completes, and
\* GET /api/products and GET /api/blog answer 500 exactly when their own
\* query fails and 200 with the query's result otherwise.
C7_SeedFailureSwallowed ==
  /\ [](resp.op = "on_startup" => started)
  /\ [](resp.op \in {"list_products", "list_blog"} =>
          /\ resp.seed.called
          /\ resp.status = (IF resp.store_ok THEN 200 ELSE 500)
          /\ resp.status = 200 =>
               resp.body = Stringified({d \in store[ListedCollection(resp.op)] :
                                          Matches(d, FilterOf(resp))}))
  /\ [][NotRetried]_vars

\* the seeding call of a product listing failed after its first inserts
\* and the listing still succeeded, with what had been inserted
C7_Witness ==
  /\ resp.op = "list_products"
  /\ resp.seed.failed
  /\ 1 \notin resp.seed.held
  /\ resp.status = 200
  /\ resp.body # {}
  /\ "product" \in hist.partial

\* C8: a successful POST /api/blog adds exactly one document to blogpost
\* and changes no other collection; the document's identifier is the one
\* returned, and its published_at is the supplied value if the payload has
\* one, the time of the call otherwise.
C8_PublishedAt ==
  [][resp'.op = "create_blog" /\ resp'.status = 200
       => LET p == PayloadOf(resp')
              added == store'["blogpost"] \ store["blogpost"]
          IN /\ \A c \in Collections \ {"blogpost"} : store'[c] = store[c]
             /\ store["blogpost"] \subseteq store'["blogpost"]
             /\ Cardinality(added) = 1
             /\ \A d \in added :
                  /\ str(d["_id"]) = resp'.body["_id"]
                  /\ d.published_at =
                       (IF "published_at" \in DOMAIN p /\ p.published_at # <<>>
                          THEN p.published_at
                          ELSE <<resp'.req.now>>)]_vars

\* a post supplied with a published_at other than the time of the call has
\* joined the seeded posts
C8_Witness ==
  /\ resp.op = "create_blog"
  /\ resp.status = 200
  /\ "published_at" \in DOMAIN resp.req.payload
  /\ resp.req.payload.published_at # <<resp.req.now>>
  /\ Cardinality(store["blogpost"]) = Len(BlogSamples) + 1

FailureKeepsInserts ==
  /\ \A c \in Collections : store[c] \subseteq store'[c]
  /\ \A s \in Slots :
       /\ SeedFails(s) => store' = store /\ th'[s].stage = "tail"
       /\ th[s].failed => th'[s].stage \in {"tail", "idle"}

\* C10 as stated: a failing seeding call keeps the j placeholders it had
\* inserted and seeds no later collection; once a call has failed part-way
\* through a collection, seeding inserts none of the placeholders that
\* collection misses; and a collection whose first document came from a
\* POST receives no placeholder.
C10_NonEmptyNeverSeeded ==
  [][/\ FailureKeepsInserts
     /\ \A s \in Slots :
          SeedInserts(s) =>
            LET c == SeedOrder[th[s].coll]
            IN /\ ~(c \in hist.partial /\ Copies(c, th[s].i) = 0)
               /\ c \notin hist.byPost]_vars

\* C10: a failing seeding call keeps the j placeholders it had inserted and
\* seeds no later collection; every seeding call whose count check finds a
\* collection non-empty, left partial by a failed call or filled by a POST,
\* skips it, so that placeholders are only added by a call whose count check
\* saw the collection empty, one sample after the other.
C10_SeedingNotAtomic ==
  [][/\ FailureKeepsInserts
     /\ \A s \in Slots :
          LET c == SeedOrder[th[s].coll]
          IN /\ SeedCounts(s) /\ store[c] # {} => th'[s].stage # "insert"
             /\ SeedCounts(s) /\ store[c] = {} =>
                  th'[s].stage = "insert" /\ th'[s].coll = th[s].coll
             /\ th'[s].stage = "insert" /\ th[s].stage # "insert" =>
                  SeedCounts(s) /\ store[c] = {}
             /\ SeedInserts(s) =>
                  /\ Cardinality(store'[c] \ store[c]) = 1
                  /\ \A d \in store'[c] \ store[c] : Body(d) = Samples(c)[th[s].i]]_vars

\* A seeding call failed after two products and left the reviews and the
\* posts unseeded.  A later call skipped the products, which still miss the
\* third placeholder, counted the reviews while there was none, and
\* inserted both review placeholders after a POST had stored a review.
C10_Witness ==
  /\ resp.op = "list_blog"
  /\ resp.seed.called
  /\ ~resp.seed.failed
  /\ resp.seed.held = {1}
  /\ "product" \in hist.partial
  /\ Cardinality(store["product"]) = 2
  /\ Copies("product", 3) = 0
  /\ "review" \in hist.byPost
  /\ \A i \in 1..Len(ReviewSamples) : Copies("review", i) = 1
  /\ store["blogpost"] # {}

====
